---------------------------- MODULE Spec2Model ----------------------------
(***************************************************************************)
(* State-machine model of tree_gen.py (ArborGen): the growth simulation of *)
(* a tree (buds, stems, leaves, flowers) driven by seasonal growth signals.*)
(*                                                                         *)
(* Numbers.  The program computes with floats; the model computes with     *)
(* exact integers in fixed point:                                          *)
(*   - potentials, chlorophyll, growth amounts, probabilities and curve    *)
(*     values are counted in quarters  (1.0 is ONE = 4);                   *)
(*   - lengths, positions and dominance are counted in 1/10000             *)
(*     (1.0 is LONE = 10000, so that 0.0001 is 1).                         *)
(* Geometry.  Every bud template of the modelled species has a branching   *)
(* angle of 0 or 180 degrees with zero spread; divergence and roll rotate  *)
(* about the local z axis.  A world matrix is then a position on the z     *)
(* axis (pos) and the direction of its local z axis (dir = 1 or -1), and   *)
(* the Euclidean distance of two buds is |pos1 - pos2|.                    *)
(***************************************************************************)
EXTENDS Integers, Sequences, FiniteSets, TLC

VARIABLES
    cfg,            \* the species: budCollection, startBudT, growth functions
    pc,             \* where the program is: "idle", the phase of a grow step, or an exception
    day, year,      \* Tree.day, Tree.year
    idGen,          \* Tree.idGen
    budObjs,        \* every Bud object ever constructed, in order of construction
    buds,           \* Tree.buds: references (indices into budObjs)
    stems,          \* Tree.stems
    leaves,         \* Tree.leaves
    fallenLeaves,   \* Tree.fallenLeaves
    flowers,        \* Tree.flowers
    fallenFlowers,  \* Tree.fallenFlowers
    editBonesQ,     \* the queue of bone-creation commands: <<id, parentId>>
    keyframesQ,     \* the queue of keyframe commands: <<id, type>>
    rig,            \* the scene's rig: the bones and keyframes made on it
    loop,           \* locals of the running grow call
    steps,          \* number of grow steps begun since construction
    last,           \* what the last operation did: its return value and locals
    call            \* a pending call of a pure function and its result

vars == <<cfg, pc, day, year, idGen, budObjs, buds, stems, leaves, fallenLeaves,
          flowers, fallenFlowers, editBonesQ, keyframesQ, rig, loop, steps, last, call>>

---------------------------------------------------------------------------
(* Units and program constants *)

\* the float 1.0 of potentials, chlorophyll, amounts and probabilities
ONE == 4

\* the float 1.0 of lengths, positions and dominance
LONE == 10000

\* TIME_INTERVAL = 20
TIME_INTERVAL == 20

\* the last day of the year, the literal 365 of grow and evaluate
YEAR_DAYS == 365

\* Bud.done: self.dominance = 0.0001
DONE_DOMINANCE == 1

\* Python's None as a bud reference
None == 0

---------------------------------------------------------------------------
(* Bounds of the model *)

\* grow steps explored for a species
MaxSteps == 3

\* Bud objects constructed at most
MaxBuds == 4

\* grow steps explored for a species on which nothing sprouts
YearSteps == 20

---------------------------------------------------------------------------
(* Helpers *)

Abs(x) == IF x < 0 THEN -x ELSE x

RECURSIVE SeqSum(_)
SeqSum(s) == IF s = <<>> THEN 0 ELSE Head(s) + SeqSum(Tail(s))

\* list.pop() for list.remove(x): s without its last element
Remove_last(s, x) == SubSeq(s, 1, Len(s) - 1)

\* s without its first element equal to x (list.remove)
RECURSIVE Remove(_, _)
Remove(s, x) ==
    IF s = <<>> THEN <<>>
    ELSE IF Head(s) = x THEN Tail(s)
    ELSE <<Head(s)>> \o Remove(Tail(s), x)

Range(s) == {s[i] : i \in DOMAIN s}

---------------------------------------------------------------------------
(* Random values *)

RV(mean, error) == [mean |-> mean, error |-> error]

\* RandomValue.get: a draw of numpy.random.uniform(mean - error, mean + error);
\* the draws the model follows are the two ends and the middle of the interval
RandomValue_get(rv) == {rv.mean - rv.error, rv.mean, rv.mean + rv.error}

\* numpy.random.uniform(0.0, 1.0): the draws 0.0, 0.5 and 0.75
Uniform01 == {0, 2, 3}

---------------------------------------------------------------------------
(* Growth functions *)

Clamp(x, lo, hi) == IF x < lo THEN lo ELSE IF x > hi THEN hi ELSE x

\* An F-curve of the scene (external data): it starts at base, rises by rate
\* every per units of x between lo and hi and is flat outside.
FCurve(base, lo, hi, per, rate) ==
    [base |-> base, lo |-> lo, hi |-> hi, per |-> per, rate |-> rate]

\* fcurve.evaluate(x)
fcurve_evaluate(c, x) == c.base + ((Clamp(x, c.lo, c.hi) - c.lo) \div c.per) * c.rate

GrowthFunction(fcurveDay, fcurveYear, stddev) ==
    [fcurveDay |-> fcurveDay, fcurveYear |-> fcurveYear, stddev |-> stddev]

\* GrowthFunction.evaluate with line 187 reading endDay <= startDay
evaluate_le(self, yr, startDay, endDay) ==
    LET yearModifier == fcurve_evaluate(self.fcurveYear, yr)
        mean0 == fcurve_evaluate(self.fcurveDay, endDay)
                    - fcurve_evaluate(self.fcurveDay, startDay)
        mean == IF endDay <= startDay
                THEN mean0 + fcurve_evaluate(self.fcurveDay, YEAR_DAYS)
                ELSE mean0
    IN  RV(mean * yearModifier, self.stddev)

\* GrowthFunction.evaluate
evaluate(self, yr, startDay, endDay) ==
    LET yearModifier == fcurve_evaluate(self.fcurveYear, yr)
        mean0 == fcurve_evaluate(self.fcurveDay, endDay)
                    - fcurve_evaluate(self.fcurveDay, startDay)
        mean == IF endDay < startDay
                THEN mean0 + fcurve_evaluate(self.fcurveDay, YEAR_DAYS)
                ELSE mean0
    IN  RV(mean * yearModifier, self.stddev)

---------------------------------------------------------------------------
(* Templates and production rules *)

StemTemplate(lengthRatioR) == [lengthRatioR |-> lengthRatioR]

BudTemplate(index, dominance, brcAngleR) ==
    [index |-> index, dominance |-> dominance, brcAngleR |-> brcAngleR]

ShootGrowthRule(stemT, apiBudT, axilTs) ==
    [kind |-> "ShootGrowthRule", stemT |-> stemT, apiBudT |-> apiBudT, axilTs |-> axilTs]

FlowerGrowthRule == [kind |-> "FlowerGrowthRule"]

\* BudType
BudType(shootRules, shootWeights) ==
    [shootRules |-> shootRules, shootWeights |-> shootWeights]

\* BudType.shootGrowth: random.choices(shootRules, shootWeights)[0], the rules
\* of positive weight
shootGrowth(type) ==
    {type.shootRules[i] : i \in {j \in DOMAIN type.shootRules : type.shootWeights[j] > 0}}

\* BudType.flowerGrowth
flowerGrowth(type) == FlowerGrowthRule

---------------------------------------------------------------------------
(* Bud *)

\* cos of a branching angle of 0 or 180 degrees: what the rotation
\* Euler((0, brcAngle, divAngle)) does to the direction of the local z axis
CosBrc(angle) == IF angle % 360 = 0 THEN 1 ELSE -1

\* Bud.renew without the reset of flowerPotential of line 332
Bud_renew_nofp(self, budT, parentPos, parentDir, parentStem) ==
    [self EXCEPT !.age = @ + 1,
                 !.type = budT.index,
                 !.dominance = budT.dominance,
                 !.stem = parentStem,
                 !.shootPotential = @ - ONE,
                 !.pos = parentPos,
                 !.dir = parentDir * CosBrc(budT.brcAngleR.mean)]

\* Bud.renew: the bud after it has sprouted into a shoot.  worldMatrix =
\* parentMatrix @ eul @ roll keeps the parent's position and turns the z axis.
Bud_renew(self, budT, parentPos, parentDir, parentStem) ==
    [self EXCEPT !.age = @ + 1,
                 !.type = budT.index,
                 !.dominance = budT.dominance,
                 !.stem = parentStem,
                 !.shootPotential = @ - ONE,
                 !.flowerPotential = 0,
                 !.pos = parentPos,
                 !.dir = parentDir * CosBrc(budT.brcAngleR.mean)]

\* Bud.__init__
Bud(budT, parentPos, parentDir, parentStem, apicalBud) ==
    Bud_renew([age |-> -1, apicalBud |-> apicalBud, flowerPotential |-> 0,
               shootPotential |-> ONE, type |-> 0, dominance |-> 0, stem |-> 0,
               pos |-> 0, dir |-> 1],
              budT, parentPos, parentDir, parentStem)

\* (apicalBud.worldMatrix.to_translation() - worldMatrix.to_translation()).length
distance(self, objs) == Abs(objs[self.apicalBud].pos - self.pos)

\* the test of line 350: an axillary bud that has not sprouted yet
isAxillary(self) == self.age = 0 /\ self.apicalBud # None

\* distance / dominance < 1 with the comparison read as <=
QuotientBelowOne_le(dist, dominance) ==
    IF dominance > 0 THEN dist <= dominance ELSE dist >= dominance

\* distance / dominance < 1 with the comparison turned round
QuotientBelowOne_gt(dist, dominance) ==
    IF dominance > 0 THEN dist > dominance ELSE dist < dominance

\* distance / dominance < 1 for dominance # 0 (the float division of line 352)
QuotientBelowOne(dist, dominance) ==
    IF dominance > 0 THEN dist < dominance ELSE dist > dominance

\* line 352 raises ZeroDivisionError
DividesByZero(self, objs) == isAxillary(self) /\ objs[self.apicalBud].dominance = 0

\* isInhibited of Bud.update left at its initial value False
isInhibited_never(self, objs) == FALSE

\* isInhibited of Bud.update
isInhibited(self, objs) ==
    /\ isAxillary(self)
    /\ QuotientBelowOne(distance(self, objs), objs[self.apicalBud].dominance)

\* Bud.update with the test age > 0 of line 370 left out
Bud_update_noage(self, shootPotential, flowerPotential, objs) ==
    LET sp == self.shootPotential + shootPotential
        fp == self.flowerPotential + flowerPotential
        inh == isInhibited(self, objs)
        acc == [self EXCEPT !.shootPotential = sp, !.flowerPotential = fp]
    IN  IF sp > ONE /\ ~inh
        THEN [self |-> acc, rule |-> "ShootGrowthRule", isInhibited |-> inh]
        ELSE LET spent == IF sp > ONE THEN [acc EXCEPT !.shootPotential = sp - ONE]
                          ELSE acc
             IN  IF fp > ONE
                 THEN [self |-> spent, rule |-> "FlowerGrowthRule", isInhibited |-> inh]
                 ELSE [self |-> spent, rule |-> "None", isInhibited |-> inh]

\* Bud.update with the flower test of line 370 made before the shoot test
Bud_update_flowerfirst(self, shootPotential, flowerPotential, objs) ==
    LET sp == self.shootPotential + shootPotential
        fp == self.flowerPotential + flowerPotential
        inh == isInhibited(self, objs)
        acc == [self EXCEPT !.shootPotential = sp, !.flowerPotential = fp]
    IN  IF fp > ONE /\ self.age > 0
        THEN [self |-> acc, rule |-> "FlowerGrowthRule", isInhibited |-> inh]
        ELSE IF sp > ONE /\ ~inh
        THEN [self |-> acc, rule |-> "ShootGrowthRule", isInhibited |-> inh]
        ELSE LET spent == IF sp > ONE THEN [acc EXCEPT !.shootPotential = sp - ONE]
                          ELSE acc
             IN  [self |-> spent, rule |-> "None", isInhibited |-> inh]

\* Bud.update with the decrement of line 369 made on every inhibited bud,
\* whatever its shootPotential
Bud_update_alwaysspend(self, shootPotential, flowerPotential, objs) ==
    LET sp == self.shootPotential + shootPotential
        fp == self.flowerPotential + flowerPotential
        inh == isInhibited(self, objs)
        acc == [self EXCEPT !.shootPotential = sp, !.flowerPotential = fp]
    IN  IF sp > ONE /\ ~inh
        THEN [self |-> acc, rule |-> "ShootGrowthRule", isInhibited |-> inh]
        ELSE LET spent == IF inh THEN [acc EXCEPT !.shootPotential = sp - ONE]
                          ELSE acc
             IN  IF fp > ONE /\ self.age > 0
                 THEN [self |-> spent, rule |-> "FlowerGrowthRule", isInhibited |-> inh]
                 ELSE [self |-> spent, rule |-> "None", isInhibited |-> inh]

\* Bud.update without the decrement of line 369
Bud_update_nospend(self, shootPotential, flowerPotential, objs) ==
    LET sp == self.shootPotential + shootPotential
        fp == self.flowerPotential + flowerPotential
        inh == isInhibited(self, objs)
        acc == [self EXCEPT !.shootPotential = sp, !.flowerPotential = fp]
    IN  IF sp > ONE /\ ~inh
        THEN [self |-> acc, rule |-> "ShootGrowthRule", isInhibited |-> inh]
        ELSE IF fp > ONE /\ self.age > 0
        THEN [self |-> acc, rule |-> "FlowerGrowthRule", isInhibited |-> inh]
        ELSE [self |-> acc, rule |-> "None", isInhibited |-> inh]

\* Bud.update: the bud after the update, the kind of rule returned and the
\* local isInhibited
Bud_update(self, shootPotential, flowerPotential, objs) ==
    LET sp == self.shootPotential + shootPotential
        fp == self.flowerPotential + flowerPotential
        inh == isInhibited(self, objs)
        acc == [self EXCEPT !.shootPotential = sp, !.flowerPotential = fp]
    IN  IF sp > ONE /\ ~inh
        THEN [self |-> acc, rule |-> "ShootGrowthRule", isInhibited |-> inh]
        ELSE LET spent == IF sp > ONE THEN [acc EXCEPT !.shootPotential = sp - ONE]
                          ELSE acc
             IN  IF fp > ONE /\ self.age > 0
                 THEN [self |-> spent, rule |-> "FlowerGrowthRule", isInhibited |-> inh]
                 ELSE [self |-> spent, rule |-> "None", isInhibited |-> inh]

\* Bud.done with the dominance driven to zero
Bud_done_zero(self) == [self EXCEPT !.dominance = 0]

\* Bud.done
Bud_done(self) == [self EXCEPT !.dominance = DONE_DOMINANCE]

---------------------------------------------------------------------------
(* Stem, Leaf, Flower *)

\* Stem.__init__.  length = parentLength * lengthRatioR.get(); thick =
\* parentThick * 0.9 is kept as thickPow, the number of factors 0.9
\* (thick = 0.9^thickPow); secondaryGrowthGain is counted in units of
\* 0.05 * thick / ONE, that is, as the sum of the growth amounts since the
\* last thickening.
Stem(ratio, parentLength, id, parentId, parentThickPow) ==
    [id |-> id, parentId |-> parentId,
     length |-> (parentLength * ratio) \div LONE,
     thickPow |-> parentThickPow + 1,
     secondaryGrowthGain |-> 0,
     thickenings |-> 0]

\* Leaf.__init__
Leaf(id, parentId) == [id |-> id, parentId |-> parentId, clorophyll |-> ONE, falls |-> 0]

\* Flower.__init__
Flower(flowerId, fruitId, parentId) ==
    [flowerId |-> flowerId, fruitId |-> fruitId, parentId |-> parentId,
     potential |-> 0, isFruit |-> FALSE, fruitings |-> 0, falls |-> 0]

\* Leaf.update when the test of line 477 reads clorophyll <= 0
Leaf_update_le(self, loss) ==
    LET c == self.clorophyll - loss
    IN  IF c <= 0
        THEN [self |-> [self EXCEPT !.clorophyll = c, !.falls = @ + 1], hasFallen |-> TRUE]
        ELSE [self |-> [self EXCEPT !.clorophyll = c], hasFallen |-> FALSE]

\* Leaf.update: the leaf after the update (falls counts the calls of
\* Leaf.fall) and the value returned
Leaf_update(self, loss) ==
    LET c == self.clorophyll - loss
    IN  IF c < 0
        THEN [self |-> [self EXCEPT !.clorophyll = c, !.falls = @ + 1], hasFallen |-> TRUE]
        ELSE [self |-> [self EXCEPT !.clorophyll = c], hasFallen |-> FALSE]

\* Flower.update without the test "not self.isFruit" of line 524
Flower_update_refruit(self, potential) ==
    LET p == self.potential + potential
        fruit == IF p > ONE
                 THEN [self EXCEPT !.potential = p, !.isFruit = TRUE, !.fruitings = @ + 1]
                 ELSE [self EXCEPT !.potential = p]
    IN  IF p > 2 * ONE
        THEN [self |-> [fruit EXCEPT !.falls = @ + 1], hasFallen |-> TRUE]
        ELSE [self |-> fruit, hasFallen |-> FALSE]

\* Flower.update with the test of line 531 made first: a flower whose
\* potential exceeds 2 falls as it is
Flower_update_fallfirst(self, potential) ==
    LET p == self.potential + potential
    IN  IF p > 2 * ONE
        THEN [self |-> [self EXCEPT !.potential = p, !.falls = @ + 1], hasFallen |-> TRUE]
        ELSE IF ~self.isFruit /\ p > ONE
        THEN [self |-> [self EXCEPT !.potential = p, !.isFruit = TRUE,
                                    !.fruitings = @ + 1],
              hasFallen |-> FALSE]
        ELSE [self |-> [self EXCEPT !.potential = p], hasFallen |-> FALSE]

\* Flower.update: the flower after the update (fruitings counts the calls of
\* makeFruit, falls the calls of fall) and the value returned
Flower_update(self, potential) ==
    LET p == self.potential + potential
        fruit == IF ~self.isFruit /\ p > ONE
                 THEN [self EXCEPT !.potential = p, !.isFruit = TRUE, !.fruitings = @ + 1]
                 ELSE [self EXCEPT !.potential = p]
    IN  IF p > 2 * ONE
        THEN [self |-> [fruit EXCEPT !.falls = @ + 1], hasFallen |-> TRUE]
        ELSE [self |-> fruit, hasFallen |-> FALSE]

\* Stem.update without the reset of line 442 after the thickening
Stem_update_keep(self, secondaryGrowth) ==
    LET g == self.secondaryGrowthGain + secondaryGrowth
    IN  IF g * 9 ^ self.thickPow > 4 * ONE * 10 ^ self.thickPow
        THEN [self EXCEPT !.secondaryGrowthGain = g, !.thickenings = @ + 1]
        ELSE [self EXCEPT !.secondaryGrowthGain = g]

\* Stem.update: gain = secondaryGrowthGain + secondaryGrowth * 0.05 * thick
\* exceeds 0.2 iff  amounts * 9^thickPow > 16 * 10^thickPow  (amounts in quarters)
Stem_update(self, secondaryGrowth) ==
    LET g == self.secondaryGrowthGain + secondaryGrowth
    IN  IF g * 9 ^ self.thickPow > 4 * ONE * 10 ^ self.thickPow
        THEN [self EXCEPT !.secondaryGrowthGain = 0, !.thickenings = @ + 1]
        ELSE [self EXCEPT !.secondaryGrowthGain = g]

\* the local gain of Stem.update, the gain of the keyframe it adds, in the
\* units of secondaryGrowthGain; 0 when the update adds no keyframe
Stem_update_gain(self, secondaryGrowth) ==
    LET g == self.secondaryGrowthGain + secondaryGrowth
    IN  IF g * 9 ^ self.thickPow > 4 * ONE * 10 ^ self.thickPow THEN g ELSE 0

---------------------------------------------------------------------------
(* The deferred commands of the rig *)

\* createBone that names the bone itself as its parent
createBone_self(q, id, parentId) == Append(q, <<id, id>>)

\* createBone: the command (bone id, parent bone id) is appended to editBonesQ
createBone(q, id, parentId) == Append(q, <<id, parentId>>)

\* MeshPart.addKeyframe, once for every type of the list types: the commands
\* (bone id, type) are appended to keyframesQ; the transform and the frame
\* of a command are not followed
addKeyframes(q, id, types) == q \o [k \in DOMAIN types |-> <<id, types[k]>>]

\* the keyframes of Stem.__init__ and of Leaf.__init__
SproutKeyframes == <<"scale", "scale", "scale">>

\* the keyframes of Leaf.fall
LeafFallKeyframes == <<"location", "location", "location", "location", "scale", "scale">>

\* the keyframes Flower.update puts on the flower mesh when it makes the fruit
WiltKeyframes == <<"location", "location", "scale", "scale">>

\* the keyframes of Flower.makeFruit
FruitKeyframes == <<"scale", "scale">>

\* the keyframes of Flower.fall
FruitFallKeyframes == <<"location", "location", "location", "scale", "scale">>

\* the rig before Tree.complete: no bone and no keyframe has been made
EmptyRig == [bones |-> <<>>, keyframes |-> <<>>]

\* flushEditBonesQ: makeEditBone for every command of the queue, in order
flushEditBonesQ(r, q) == [r EXCEPT !.bones = @ \o q]

\* flushKeyframesQ that makes no keyframe
flushKeyframesQ_none(r, q) == r

\* flushKeyframesQ: makeKeyframe for every command of the queue, in order
flushKeyframesQ(r, q) == [r EXCEPT !.keyframes = @ \o q]

---------------------------------------------------------------------------
(* Species: the configurations the model explores *)

\* a day curve rising by rate every TIME_INTERVAL days from day lo to day hi
Season(lo, hi, rate) == FCurve(0, lo, hi, TIME_INTERVAL, rate)

\* a day curve rising by rate every TIME_INTERVAL days all year
Steady(rate) == Season(1, YEAR_DAYS, rate)

\* a year curve of constant value v
Const(v) == FCurve(v, 0, 0, 1, 0)

\* the arguments of Tree(budCollection, startBudT, primaryGrowthF,
\* secondaryGrowthF, bloomingF, fruitGrowthF, leafDecayF) and the number of
\* grow steps the model follows
Species(coll, startT, primaryF, secondaryF, bloomF, fruitF, decayF, maxSteps) ==
    [budCollection |-> coll, startBudT |-> startT,
     primaryGrowthF |-> primaryF, secondaryGrowthF |-> secondaryF,
     bloomingF |-> bloomF, fruitGrowthF |-> fruitF,
     leafDecayF |-> decayF, maxSteps |-> maxSteps]

\* bud templates: dominance 1.0, straight or turned back
budTapi == BudTemplate(0, LONE, RV(0, 0))
budTaxil == BudTemplate(1, 2 * LONE, RV(180, 0))

\* a species whose primary growth varies from bud to bud: an apical bud may
\* sprout or stay and flower, its axillary buds of type 1 double the length
Oak ==
    Species(
        (0 :> BudType(<<ShootGrowthRule(StemTemplate(RV(LONE, 0)), budTapi, <<budTaxil>>),
                        ShootGrowthRule(StemTemplate(RV(LONE, 0)), budTapi, <<>>)>>,
                      <<8, 1>>)
         @@
         1 :> BudType(<<ShootGrowthRule(StemTemplate(RV(2 * LONE, 0)), budTaxil, <<>>),
                        ShootGrowthRule(StemTemplate(RV(0, 0)), budTapi, <<>>)>>,
                      <<1, 0>>)),
        budTapi,
        GrowthFunction(Steady(4), Const(1), 1),
        GrowthFunction(Steady(8), Const(1), 0),
        GrowthFunction(Steady(5), Const(1), 0),
        GrowthFunction(Steady(3), Const(1), 4),
        GrowthFunction(Steady(2), Const(1), 0),
        MaxSteps)

\* a deterministic species: bud type 0 always shoots, with one axillary bud
\* of type 0; every step puts 1.25 of primary growth on every bud, nothing
\* blooms, a leaf loses 0.25 a step
Sapling(dominance, ratio) ==
    Species(
        (0 :> BudType(<<ShootGrowthRule(StemTemplate(RV(ratio, 0)),
                                        BudTemplate(0, dominance, RV(0, 0)),
                                        <<BudTemplate(0, dominance, RV(0, 0))>>)>>,
                      <<1>>)),
        BudTemplate(0, dominance, RV(0, 0)),
        GrowthFunction(Steady(5), Const(1), 0),
        GrowthFunction(Steady(6), Const(1), 0),
        GrowthFunction(Steady(0), Const(1), 0),
        GrowthFunction(Steady(0), Const(1), 0),
        GrowthFunction(Steady(1), Const(1), 0),
        MaxSteps)

DetSpecies == {Sapling(LONE, LONE), Sapling(3 * LONE, LONE), Sapling(2 * LONE, 0)}

\* the first sapling with a leaf decay that varies from leaf to leaf:
\* -0.25, 0.25 or 0.75 a step
Birch ==
    [Sapling(8 * LONE, LONE) EXCEPT
        !.leafDecayF = GrowthFunction(Steady(1), Const(1), 2)]

\* the first sapling with a stem length ratio that varies from stem to
\* stem: -1.0, 0.0 or 1.0
Willow ==
    [Sapling(LONE, LONE) EXCEPT
        !.budCollection[0].shootRules[1].stemT.lengthRatioR = RV(0, LONE)]

\* the first sapling with an apical template of bud type 7, which the bud
\* collection does not hold
Rogue ==
    [Sapling(LONE, LONE) EXCEPT
        !.budCollection[0].shootRules[1].apiBudT.index = 7]

\* a sapling without primary growth: its bud never sprouts, its root stem
\* thickens; its blooming signal rises by 0.25 a week in year 0, by 0.5 a
\* week in year 1; followed for more than a year
Dormant ==
    [Sapling(LONE, LONE) EXCEPT
        !.primaryGrowthF = GrowthFunction(Steady(0), Const(1), 0),
        !.bloomingF = GrowthFunction(FCurve(0, 1, YEAR_DAYS, 7, 1),
                                     FCurve(1, 0, 5, 1, 1), 0),
        !.maxSteps = YearSteps]

AllSpecies == {Oak, Birch, Willow, Rogue, Dormant} \cup DetSpecies

---------------------------------------------------------------------------
(* Tree *)

\* parentId of bone 0 (createBone's parentId = None)
NoParent == -1

\* the locals of grow outside a call; iters is the number of elements left in
\* range(0, time, TIME_INTERVAL) and n the number of elements taken from it
IdleLoop ==
    [iters |-> 0, leafGrowth |-> 0, flowerGrowth |-> 0,
     yr |-> 0, startDay |-> 0, endDay |-> 0, startFrame |-> 0, endFrame |-> 0,
     primaryGrowthR |-> RV(0, 0), bloomingR |-> RV(0, 0),
     leafDecayR |-> RV(0, 0), fruitGrowthR |-> RV(0, 0),
     snap |-> <<>>, i |-> 0, addedBuds |-> <<>>, time |-> 0, n |-> 0]

NoLast == [op |-> "none"]

NoCall == [fn |-> "none"]

\* len(range(0, time, TIME_INTERVAL)) with the last, partial interval dropped
RangeLen_floor(time) ==
    IF time <= 0 THEN 0 ELSE time \div TIME_INTERVAL

\* len(range(0, time, TIME_INTERVAL))
RangeLen(time) ==
    IF time <= 0 THEN 0 ELSE (time + TIME_INTERVAL - 1) \div TIME_INTERVAL

\* the arguments of grow the model explores: <<time, leafGrowth, flowerGrowth>>
GrowArgs == {<<-20, ONE, ONE>>, <<0, ONE, ONE>>, <<21, ONE, ONE>>, <<60, 2, 0>>}

\* Tree.__init__: the rig with bone 0, the root stem (id 1, length
\* 1.0 * RV(1.0, 0.01).get(), thick 0.9) and the starting bud
Init ==
    /\ cfg \in AllSpecies
    /\ pc = "idle"
    /\ day = 1
    /\ year = 0
    /\ idGen = 2
    /\ \E ratio \in RandomValue_get(RV(LONE, LONE \div 100)) :
          stems = <<Stem(ratio, LONE, 1, 0, 0)>>
    /\ budObjs = <<Bud(cfg.startBudT, 0, 1, 1, None)>>
    /\ buds = <<1>>
    /\ leaves = <<>>
    /\ fallenLeaves = <<>>
    /\ flowers = <<>>
    /\ fallenFlowers = <<>>
    /\ editBonesQ = createBone(createBone(<<>>, 0, NoParent), 1, 0)
    /\ keyframesQ = addKeyframes(<<>>, 1, SproutKeyframes)
    /\ rig = EmptyRig
    /\ loop = IdleLoop
    /\ steps = 0
    /\ last = NoLast
    /\ call = NoCall

\* a call of Tree.grow(time, leafGrowth, flowerGrowth): the range of the loop
grow ==
    /\ pc = "idle"
    /\ \E args \in GrowArgs :
          /\ steps + RangeLen(args[1]) <= cfg.maxSteps
          /\ loop' = [IdleLoop EXCEPT !.iters = RangeLen(args[1]),
                                      !.leafGrowth = args[2],
                                      !.flowerGrowth = args[3],
                                      !.time = args[1]]
          /\ last' = [op |-> "grow"]
    /\ pc' = "for"
    /\ UNCHANGED <<cfg, day, year, idGen, budObjs, buds, stems, leaves, fallenLeaves,
                   flowers, fallenFlowers, editBonesQ, keyframesQ, rig, steps, call>>

\* the range of the loop is exhausted: grow returns
growReturn ==
    /\ pc = "for"
    /\ loop.iters = 0
    /\ pc' = "idle"
    /\ loop' = IdleLoop
    /\ last' = [op |-> "growReturn", time |-> loop.time, n |-> loop.n]
    /\ UNCHANGED <<cfg, day, year, idGen, budObjs, buds, stems, leaves, fallenLeaves,
                   flowers, fallenFlowers, editBonesQ, keyframesQ, rig, steps, call>>

\* lines 673-701 with the signals evaluated in the year the step ends in
growStep_endyear ==
    /\ pc = "for"
    /\ loop.iters > 0
    /\ LET d == day + TIME_INTERVAL
           wrap == d > YEAR_DAYS
           endDay == IF wrap THEN d - YEAR_DAYS ELSE d
           endYear == IF wrap THEN year + 1 ELSE year
       IN  /\ day' = endDay
           /\ year' = endYear
           /\ loop' = [loop EXCEPT
                 !.yr = endYear, !.startDay = day, !.endDay = endDay,
                 !.startFrame = year * YEAR_DAYS + day,
                 !.endFrame = endYear * YEAR_DAYS + endDay,
                 !.primaryGrowthR = evaluate(cfg.primaryGrowthF, endYear, day, endDay),
                 !.bloomingR = evaluate(cfg.bloomingF, endYear, day, endDay),
                 !.snap = buds, !.i = 1, !.addedBuds = <<>>, !.n = @ + 1]
    /\ pc' = "buds"
    /\ steps' = steps + 1
    /\ last' = [op |-> "growStep"]
    /\ UNCHANGED <<cfg, idGen, budObjs, buds, stems, leaves, fallenLeaves,
                   flowers, fallenFlowers, editBonesQ, keyframesQ, rig, call>>

\* lines 673-701: the time of the step, the growth signals of the bud pass
\* and the snapshot list(self.buds)
growStep ==
    /\ pc = "for"
    /\ loop.iters > 0
    /\ LET d == day + TIME_INTERVAL
           wrap == d > YEAR_DAYS
           endDay == IF wrap THEN d - YEAR_DAYS ELSE d
           endYear == IF wrap THEN year + 1 ELSE year
       IN  /\ day' = endDay
           /\ year' = endYear
           /\ loop' = [loop EXCEPT
                 !.yr = year, !.startDay = day, !.endDay = endDay,
                 !.startFrame = year * YEAR_DAYS + day,
                 !.endFrame = endYear * YEAR_DAYS + endDay,
                 !.primaryGrowthR = evaluate(cfg.primaryGrowthF, year, day, endDay),
                 !.bloomingR = evaluate(cfg.bloomingF, year, day, endDay),
                 !.snap = buds, !.i = 1, !.addedBuds = <<>>, !.n = @ + 1]
    /\ pc' = "buds"
    /\ steps' = steps + 1
    /\ last' = [op |-> "growStep"]
    /\ UNCHANGED <<cfg, idGen, budObjs, buds, stems, leaves, fallenLeaves,
                   flowers, fallenFlowers, editBonesQ, keyframesQ, rig, call>>

\* Tree.getId without the increment of idGen
getId_same(gen) == [id |-> gen, idGen |-> gen]

\* Tree.getId: the id handed out and the generator after it
getId(gen) == [id |-> gen, idGen |-> gen + 1]

\* lines 731-747, from the k-th axillary template on: each axillary bud is
\* constructed at parentMatrix with the sprouting bud as its apical bud and
\* appended to addedBuds; its leaf is created when the draw gates[k] is
\* <= leafGrowth.  acc: the heap of buds, addedBuds, leaves, idGen, the two
\* queues, and the exception raised (budCollection.get of an unknown index).
RECURSIVE AxilLoop(_, _, _, _, _)
AxilLoop(axilTs, gates, k, ctx, acc) ==
    IF k > Len(axilTs) \/ acc.err # "" THEN acc
    ELSE IF axilTs[k].index \notin DOMAIN ctx.budCollection
    THEN [acc EXCEPT !.err = "KeyError"]
    ELSE LET axiBud == Bud(axilTs[k], ctx.pos, ctx.dir, ctx.stem, ctx.apicalBud)
             a1 == [acc EXCEPT !.objs = Append(@, axiBud),
                               !.addedBuds = Append(@, Len(acc.objs) + 1)]
             got == getId(a1.idGen)
             a2 == IF gates[k] <= ctx.leafGrowth
                   THEN [a1 EXCEPT !.leaves = Append(@, Leaf(got.id, ctx.stemId)),
                                   !.bones = createBone(@, got.id, ctx.stemId),
                                   !.keys = addKeyframes(@, got.id, SproutKeyframes),
                                   !.idGen = got.idGen]
                   ELSE a1
         IN  AxilLoop(axilTs, gates, k + 1, ctx, a2)

\* what a call of Bud.update on the bud b saw and returned: the bud before
\* the call, the two signals, the distance to and dominance of its apical
\* bud, the local isInhibited, the kind of rule returned and the potentials
\* the call left
UpdateRecord(b, objs, shootPotential, flowerPotential, r) ==
    [op |-> "Bud.update", bud |-> b,
     age |-> objs[b].age,
     apicalBud |-> objs[b].apicalBud,
     dist |-> IF objs[b].apicalBud # None THEN distance(objs[b], objs) ELSE 0,
     dominance |-> IF objs[b].apicalBud # None
                   THEN objs[objs[b].apicalBud].dominance ELSE 0,
     shootSignal |-> shootPotential,
     flowerSignal |-> flowerPotential,
     spBefore |-> objs[b].shootPotential,
     fpBefore |-> objs[b].flowerPotential,
     spAfter |-> r.self.shootPotential,
     fpAfter |-> r.self.flowerPotential,
     isInhibited |-> r.isInhibited,
     rule |-> r.rule,
     grown |-> "none"]

\* lines 705-747: the bud b, updated to self, grows into a shoot by rule
\* with the sampled length ratio and the leaf draws gates
Shoot(b, self, rule, ratio, gates, rec) ==
    LET parent == stems[self.stem]
        got == getId(idGen)
        stem == Stem(ratio, parent.length, got.id, parent.id, parent.thickPow)
        stemRef == Len(stems) + 1
        pos == self.pos + self.dir * stem.length
        bones1 == createBone(editBonesQ, got.id, parent.id)
        keys1 == addKeyframes(keyframesQ, got.id, SproutKeyframes)
    IN  /\ Len(budObjs) + Len(rule.axilTs) <= MaxBuds
        /\ stems' = Append(stems, stem)
        /\ IF rule.apiBudT.index \notin DOMAIN cfg.budCollection
           THEN \* bud.renew raises KeyError after self.age += 1
                /\ budObjs' = [budObjs EXCEPT ![b] = [self EXCEPT !.age = @ + 1]]
                /\ idGen' = got.idGen
                /\ editBonesQ' = bones1
                /\ keyframesQ' = keys1
                /\ pc' = "KeyError"
                /\ UNCHANGED <<leaves, loop>>
           ELSE LET renewed == Bud_renew(self, rule.apiBudT, pos, self.dir, stemRef)
                    ctx == [budCollection |-> cfg.budCollection, pos |-> pos,
                            dir |-> self.dir, stem |-> stemRef, stemId |-> stem.id,
                            apicalBud |-> b, leafGrowth |-> loop.leafGrowth]
                    acc == AxilLoop(rule.axilTs, gates, 1, ctx,
                              [objs |-> [budObjs EXCEPT ![b] = renewed],
                               addedBuds |-> loop.addedBuds, leaves |-> leaves,
                               idGen |-> got.idGen, bones |-> bones1,
                               keys |-> keys1, err |-> ""])
                IN  /\ budObjs' = acc.objs
                    /\ idGen' = acc.idGen
                    /\ editBonesQ' = acc.bones
                    /\ keyframesQ' = acc.keys
                    /\ leaves' = acc.leaves
                    /\ IF acc.err # ""
                       THEN /\ pc' = acc.err
                            /\ loop' = [loop EXCEPT !.addedBuds = acc.addedBuds]
                       ELSE /\ pc' = pc
                            /\ loop' = [loop EXCEPT !.addedBuds = acc.addedBuds,
                                                    !.i = @ + 1]
        /\ last' = [rec EXCEPT !.grown = "stem"]
        /\ UNCHANGED <<buds, flowers>>

\* lines 750-775 without self.buds.remove(bud): the bud that has flowered
\* stays in the live list
Bloom_keep(b, self, u, rec) ==
    IF u <= loop.flowerGrowth
    THEN LET flowerId == getId(idGen)
             fruitId == getId(flowerId.idGen)
             parentId == stems[self.stem].id
         IN  /\ flowers' = Append(flowers, Flower(flowerId.id, fruitId.id, parentId))
             /\ idGen' = fruitId.idGen
             /\ editBonesQ' = createBone(createBone(editBonesQ, flowerId.id, parentId),
                                          fruitId.id, parentId)
             /\ keyframesQ' = addKeyframes(
                                  addKeyframes(keyframesQ, flowerId.id, <<"scale", "scale">>),
                                  fruitId.id, <<"scale">>)
             /\ buds' = buds
             /\ budObjs' = [budObjs EXCEPT ![b] = Bud_done(self)]
             /\ last' = [rec EXCEPT !.grown = "flower"]
    ELSE /\ budObjs' = [budObjs EXCEPT
                           ![b] = [self EXCEPT !.flowerPotential = @ - ONE]]
         /\ last' = [rec EXCEPT !.grown = "missed"]
         /\ UNCHANGED <<flowers, idGen, editBonesQ, keyframesQ, buds>>

\* lines 750-775: the bud b, updated to self, is ready to flower; u is the
\* draw compared with flowerGrowth
Bloom(b, self, u, rec) ==
    IF u <= loop.flowerGrowth
    THEN LET flowerId == getId(idGen)
             fruitId == getId(flowerId.idGen)
             parentId == stems[self.stem].id
         IN  /\ flowers' = Append(flowers, Flower(flowerId.id, fruitId.id, parentId))
             /\ idGen' = fruitId.idGen
             /\ editBonesQ' = createBone(createBone(editBonesQ, flowerId.id, parentId),
                                          fruitId.id, parentId)
             /\ keyframesQ' = addKeyframes(
                                  addKeyframes(keyframesQ, flowerId.id, <<"scale", "scale">>),
                                  fruitId.id, <<"scale">>)
             /\ buds' = Remove(buds, b)
             /\ budObjs' = [budObjs EXCEPT ![b] = Bud_done(self)]
             /\ last' = [rec EXCEPT !.grown = "flower"]
    ELSE /\ budObjs' = [budObjs EXCEPT
                           ![b] = [self EXCEPT !.flowerPotential = @ - ONE]]
         /\ last' = [rec EXCEPT !.grown = "missed"]
         /\ UNCHANGED <<flowers, idGen, editBonesQ, keyframesQ, buds>>

\* one turn of the loop of line 701: the update of the next bud of the
\* snapshot with its own draws of the two signals, and what grows from it
budUpdate ==
    /\ pc = "buds"
    /\ loop.i <= Len(loop.snap)
    /\ LET b == loop.snap[loop.i]
       IN  \E shootPotential \in RandomValue_get(loop.primaryGrowthR),
              flowerPotential \in RandomValue_get(loop.bloomingR) :
             IF DividesByZero(budObjs[b], budObjs)
             THEN /\ pc' = "ZeroDivisionError"
                  /\ budObjs' = [budObjs EXCEPT
                        ![b].shootPotential = @ + shootPotential,
                        ![b].flowerPotential = @ + flowerPotential]
                  /\ last' = [op |-> "ZeroDivisionError", bud |-> b]
                  /\ UNCHANGED <<idGen, buds, stems, leaves, flowers, editBonesQ,
                                 keyframesQ, loop>>
             ELSE LET r == Bud_update(budObjs[b], shootPotential, flowerPotential, budObjs)
                      rec == UpdateRecord(b, budObjs, shootPotential, flowerPotential, r)
                      type == cfg.budCollection[budObjs[b].type]
                  IN  IF r.rule = "ShootGrowthRule"
                      THEN \E rule \in shootGrowth(type) :
                           \E ratio \in RandomValue_get(rule.stemT.lengthRatioR) :
                           \E gates \in [1 .. Len(rule.axilTs) -> Uniform01] :
                              Shoot(b, r.self, rule, ratio, gates, rec)
                      ELSE IF r.rule = "FlowerGrowthRule"
                      THEN /\ \E u \in Uniform01 : Bloom(b, r.self, u, rec)
                           /\ pc' = pc
                           /\ loop' = [loop EXCEPT !.i = @ + 1]
                           /\ UNCHANGED <<stems, leaves>>
                      ELSE /\ budObjs' = [budObjs EXCEPT ![b] = r.self]
                           /\ last' = rec
                           /\ pc' = pc
                           /\ loop' = [loop EXCEPT !.i = @ + 1]
                           /\ UNCHANGED <<idGen, buds, stems, leaves, flowers, editBonesQ,
                                          keyframesQ>>
    /\ UNCHANGED <<cfg, day, year, fallenLeaves, fallenFlowers, rig, steps, call>>

\* the end of the bud pass without line 777: the new buds are not appended
budsExtend_lost ==
    /\ pc = "buds"
    /\ loop.i > Len(loop.snap)
    /\ pc' = "stems"
    /\ loop' = [loop EXCEPT !.snap = <<>>, !.i = 0, !.addedBuds = <<>>,
                            !.primaryGrowthR = RV(0, 0), !.bloomingR = RV(0, 0)]
    /\ last' = [op |-> "budsExtend"]
    /\ UNCHANGED <<cfg, day, year, idGen, budObjs, buds, stems, leaves, fallenLeaves,
                   flowers, fallenFlowers, editBonesQ, keyframesQ, rig, steps, call>>

\* line 777: self.buds.extend(addedBuds), after the pass over the snapshot
budsExtend ==
    /\ pc = "buds"
    /\ loop.i > Len(loop.snap)
    /\ buds' = buds \o loop.addedBuds
    /\ pc' = "stems"
    /\ loop' = [loop EXCEPT !.snap = <<>>, !.i = 0, !.addedBuds = <<>>,
                            !.primaryGrowthR = RV(0, 0), !.bloomingR = RV(0, 0)]
    /\ last' = [op |-> "budsExtend"]
    /\ UNCHANGED <<cfg, day, year, idGen, budObjs, stems, leaves, fallenLeaves,
                   flowers, fallenFlowers, editBonesQ, keyframesQ, rig, steps, call>>

\* lines 780-785: one draw of secondary growth applied to every stem, then
\* the leaf-decay signal and the snapshot list(self.leaves)
stemsUpdate ==
    /\ pc = "stems"
    /\ \E secondaryGrowth \in RandomValue_get(
              evaluate(cfg.secondaryGrowthF, loop.yr, loop.startDay, loop.endDay)) :
          /\ stems' = [k \in DOMAIN stems |-> Stem_update(stems[k], secondaryGrowth)]
          /\ LET thickens(stem) ==
                     Stem_update(stem, secondaryGrowth).thickenings > stem.thickenings
                 thickened == SelectSeq(stems, thickens)
             IN  keyframesQ' = keyframesQ
                     \o [k \in DOMAIN thickened |-> <<thickened[k].id, "scale">>]
          /\ last' = [op |-> "Stem.update", secondaryGrowth |-> secondaryGrowth,
                      before |-> stems,
                      gains |-> [k \in DOMAIN stems |->
                                   Stem_update_gain(stems[k], secondaryGrowth)]]
    /\ loop' = [loop EXCEPT
          !.leafDecayR = evaluate(cfg.leafDecayF, loop.yr, loop.startDay, loop.endDay),
          !.snap = [k \in DOMAIN leaves |-> leaves[k].id], !.i = 1]
    /\ pc' = "leaves"
    /\ UNCHANGED <<cfg, day, year, idGen, budObjs, buds, leaves, fallenLeaves,
                   flowers, fallenFlowers, editBonesQ, rig, steps, call>>

\* the index in the list parts of the part whose id is id
IndexOf(parts, id) == CHOOSE k \in DOMAIN parts : parts[k].id = id

\* the list parts without its k-th element
RemoveAt(parts, k) == SubSeq(parts, 1, k - 1) \o SubSeq(parts, k + 1, Len(parts))

\* lines 786-790: the update of the next leaf of the snapshot with its own
\* draw of the decay; a leaf that has fallen moves to fallenLeaves
leafUpdate ==
    /\ pc = "leaves"
    /\ loop.i <= Len(loop.snap)
    /\ LET k == IndexOf(leaves, loop.snap[loop.i])
       IN  \E loss \in RandomValue_get(loop.leafDecayR) :
             LET r == Leaf_update(leaves[k], loss)
             IN  /\ IF r.hasFallen
                    THEN /\ leaves' = RemoveAt(leaves, k)
                         /\ fallenLeaves' = Append(fallenLeaves, r.self)
                         /\ keyframesQ' = addKeyframes(keyframesQ, leaves[k].id,
                                                       LeafFallKeyframes)
                    ELSE /\ leaves' = [leaves EXCEPT ![k] = r.self]
                         /\ UNCHANGED <<fallenLeaves, keyframesQ>>
                 /\ last' = [op |-> "Leaf.update", id |-> leaves[k].id, loss |-> loss,
                             before |-> leaves[k].clorophyll,
                             after |-> r.self.clorophyll, hasFallen |-> r.hasFallen]
    /\ loop' = [loop EXCEPT !.i = @ + 1]
    /\ UNCHANGED <<cfg, pc, day, year, idGen, budObjs, buds, stems,
                   flowers, fallenFlowers, editBonesQ, rig, steps, call>>

\* line 793 with the pass over the flowers made on an empty list
leavesDone_nosnap ==
    /\ pc = "leaves"
    /\ loop.i > Len(loop.snap)
    /\ loop' = [loop EXCEPT
          !.leafDecayR = RV(0, 0),
          !.fruitGrowthR = evaluate(cfg.fruitGrowthF, loop.yr, loop.startDay, loop.endDay),
          !.snap = <<>>, !.i = 1]
    /\ pc' = "flowers"
    /\ last' = [op |-> "leavesDone"]
    /\ UNCHANGED <<cfg, day, year, idGen, budObjs, buds, stems, leaves, fallenLeaves,
                   flowers, fallenFlowers, editBonesQ, keyframesQ, rig, steps, call>>

\* line 793: after the pass over the leaves, the fruit-growth signal and the
\* snapshot list(self.flowers)
leavesDone ==
    /\ pc = "leaves"
    /\ loop.i > Len(loop.snap)
    /\ loop' = [loop EXCEPT
          !.leafDecayR = RV(0, 0),
          !.fruitGrowthR = evaluate(cfg.fruitGrowthF, loop.yr, loop.startDay, loop.endDay),
          !.snap = [k \in DOMAIN flowers |-> flowers[k].flowerId], !.i = 1]
    /\ pc' = "flowers"
    /\ last' = [op |-> "leavesDone"]
    /\ UNCHANGED <<cfg, day, year, idGen, budObjs, buds, stems, leaves, fallenLeaves,
                   flowers, fallenFlowers, editBonesQ, keyframesQ, rig, steps, call>>

\* lines 794-798: the update of the next flower of the snapshot with its own
\* draw of the fruit growth; a fruit that has fallen moves to fallenFlowers
flowerUpdate ==
    /\ pc = "flowers"
    /\ loop.i <= Len(loop.snap)
    /\ LET k == CHOOSE j \in DOMAIN flowers : flowers[j].flowerId = loop.snap[loop.i]
       IN  \E potential \in RandomValue_get(loop.fruitGrowthR) :
             LET r == Flower_update(flowers[k], potential)
                 keys1 == IF r.self.fruitings > flowers[k].fruitings
                          THEN addKeyframes(
                                   addKeyframes(keyframesQ, flowers[k].flowerId,
                                                WiltKeyframes),
                                   flowers[k].fruitId, FruitKeyframes)
                          ELSE keyframesQ
             IN  /\ keyframesQ' = IF r.hasFallen
                                  THEN addKeyframes(keys1, flowers[k].fruitId,
                                                    FruitFallKeyframes)
                                  ELSE keys1
                 /\ IF r.hasFallen
                    THEN /\ flowers' = RemoveAt(flowers, k)
                         /\ fallenFlowers' = Append(fallenFlowers, r.self)
                    ELSE /\ flowers' = [flowers EXCEPT ![k] = r.self]
                         /\ UNCHANGED fallenFlowers
                 /\ last' = [op |-> "Flower.update", id |-> flowers[k].flowerId,
                             potential |-> potential, before |-> flowers[k],
                             after |-> r.self, hasFallen |-> r.hasFallen]
    /\ loop' = [loop EXCEPT !.i = @ + 1]
    /\ UNCHANGED <<cfg, pc, day, year, idGen, budObjs, buds, stems,
                   leaves, fallenLeaves, editBonesQ, rig, steps, call>>

\* the end of a step: the loop of line 672 takes the next element of its range
flowersDone ==
    /\ pc = "flowers"
    /\ loop.i > Len(loop.snap)
    /\ loop' = [IdleLoop EXCEPT !.iters = loop.iters - 1,
                                !.leafGrowth = loop.leafGrowth,
                                !.flowerGrowth = loop.flowerGrowth,
                                !.time = loop.time,
                                !.n = loop.n]
    /\ pc' = "for"
    /\ last' = [op |-> "flowersDone"]
    /\ UNCHANGED <<cfg, day, year, idGen, budObjs, buds, stems, leaves, fallenLeaves,
                   flowers, fallenFlowers, editBonesQ, keyframesQ, rig, steps, call>>

\* Tree.complete, called when no grow is running: the two queues are
\* flushed to the rig; the program then joins the meshes and ends
complete ==
    /\ pc = "idle"
    /\ rig' = flushKeyframesQ(flushEditBonesQ(rig, editBonesQ), keyframesQ)
    /\ pc' = "complete"
    /\ last' = [op |-> "complete"]
    /\ UNCHANGED <<cfg, day, year, idGen, budObjs, buds, stems, leaves, fallenLeaves,
                   flowers, fallenFlowers, editBonesQ, keyframesQ, loop, steps, call>>

Next ==
    \/ grow
    \/ growReturn
    \/ growStep
    \/ budUpdate
    \/ budsExtend
    \/ stemsUpdate
    \/ leafUpdate
    \/ leavesDone
    \/ flowerUpdate
    \/ flowersDone
    \/ complete

Spec == Init /\ [][Next]_vars

---------------------------------------------------------------------------
(* Calls of GrowthFunction.evaluate on its own *)

\* the growth functions, years and days evaluate is called with
EvalFunctions ==
    {GrowthFunction(Steady(3), Const(2), 1),
     GrowthFunction(Season(101, 201, 2), FCurve(1, 0, 5, 1, 1), 0),
     GrowthFunction(FCurve(7, 1, YEAR_DAYS, 91, -2), Const(-1), 2)}

EvalYears == 0 .. 2

EvalDays == {1, 21, 181, 361, YEAR_DAYS}

\* a call evaluate(year, startDay, endDay) is pending; no tree is grown
InitEval ==
    /\ call \in [fn : {"evaluate"}, self : EvalFunctions, year : EvalYears,
                 startDay : EvalDays, endDay : EvalDays, done : {FALSE},
                 result : {RV(0, 0)}]
    /\ cfg = Oak
    /\ pc = "evaluate"
    /\ day = 1
    /\ year = 0
    /\ idGen = 1
    /\ stems = <<>>
    /\ budObjs = <<>>
    /\ buds = <<>>
    /\ leaves = <<>>
    /\ fallenLeaves = <<>>
    /\ flowers = <<>>
    /\ fallenFlowers = <<>>
    /\ editBonesQ = <<>>
    /\ keyframesQ = <<>>
    /\ rig = EmptyRig
    /\ loop = IdleLoop
    /\ steps = 0
    /\ last = NoLast

\* the pending call returns
evaluateCall ==
    /\ pc = "evaluate"
    /\ ~call.done
    /\ call' = [call EXCEPT
          !.done = TRUE,
          !.result = evaluate(call.self, call.year, call.startDay, call.endDay)]
    /\ UNCHANGED <<cfg, pc, day, year, idGen, budObjs, buds, stems, leaves,
                   fallenLeaves, flowers, fallenFlowers, editBonesQ, keyframesQ, rig, loop, steps, last>>

NextEval == evaluateCall

SpecEval == InitEval /\ [][NextEval]_vars

---------------------------------------------------------------------------
(* Properties *)

\* the bud b has flowered and been retired: it has left Tree.buds and is not
\* waiting in addedBuds
Retired(b) == b \notin Range(buds) /\ b \notin Range(loop.addedBuds)

\* C1: Bud.update finds a bud inhibited if and only if its age is 0, it has
\* an apical bud and its distance to the apical bud is below the apical
\* bud's (positive) dominance; at distance = dominance it is not inhibited.
C1_InhibitedIff ==
    last.op = "Bud.update" =>
        (last.isInhibited <=>
            /\ last.age = 0
            /\ last.apicalBud # None
            /\ last.dominance > 0
            /\ last.dist < last.dominance)

\* C1 witness: an axillary bud at exactly distance = dominance is updated,
\* is not inhibited and sprouts
C1_Witness ==
    /\ last.op = "Bud.update"
    /\ last.age = 0
    /\ last.apicalBud # None
    /\ last.dist = last.dominance
    /\ ~last.isInhibited
    /\ last.grown = "stem"

\* C2: Bud.update never returns a flower rule for a bud of age 0
C2_NoFlowerAtAgeZero ==
    last.op = "Bud.update" /\ last.rule = "FlowerGrowthRule" => last.age > 0

\* C2 witness: a bud of age 0 has accumulated a flowerPotential above 1 and
\* its update returns nothing
C2_Witness ==
    /\ last.op = "Bud.update"
    /\ last.age = 0
    /\ last.fpAfter > ONE
    /\ last.rule = "None"

\* C3 (as claimed): an axillary bud whose apical bud has been retired is not
\* inhibited in any update
C3_RetiredNeverInhibits ==
    last.op = "Bud.update" /\ last.apicalBud # None /\ Retired(last.apicalBud)
        => ~last.isInhibited

\* C4: no bud, live or retired, has dominance 0, and the division of line
\* 352 never raises ZeroDivisionError
C4_DominanceNeverZero ==
    /\ \A b \in DOMAIN budObjs : budObjs[b].dominance # 0
    /\ pc # "ZeroDivisionError"

\* C4 witness: the inhibition test divides by the dominance of a retired bud
C4_Witness ==
    /\ last.op = "Bud.update"
    /\ last.age = 0
    /\ last.apicalBud # None
    /\ Retired(last.apicalBud)
    /\ last.dominance = DONE_DOMINANCE

\* C5 (state): a live leaf has chlorophyll >= 0 and has never fallen; a
\* fallen leaf has chlorophyll < 0 and has fallen once; no leaf is in both
\* sets; Leaf.update returns true exactly when it leaves chlorophyll < 0,
\* and the leaf it updates was live
C5_LeafSets ==
    /\ \A k \in DOMAIN leaves : leaves[k].clorophyll >= 0 /\ leaves[k].falls = 0
    /\ \A k \in DOMAIN fallenLeaves :
          /\ fallenLeaves[k].clorophyll < 0
          /\ fallenLeaves[k].falls = 1
          /\ \A j \in DOMAIN leaves : leaves[j].id # fallenLeaves[k].id
    /\ last.op = "Leaf.update" =>
          /\ last.hasFallen <=> last.after < 0
          /\ last.before >= 0
          /\ last.hasFallen <=> \E k \in DOMAIN fallenLeaves : fallenLeaves[k].id = last.id

\* C5 (step): a fallen leaf stays in the fallen set as it is (it is never
\* updated again) and does not return to the live set
C5_FallenStays ==
    \A k \in DOMAIN fallenLeaves :
        /\ k \in DOMAIN fallenLeaves'
        /\ fallenLeaves'[k] = fallenLeaves[k]
        /\ \A j \in DOMAIN leaves' : leaves'[j].id # fallenLeaves[k].id

\* C5: a leaf moves from the live set to the fallen set exactly once, in
\* the first update that leaves its chlorophyll < 0, and never comes back
C5_LeafFallsOnce == [](C5_LeafSets) /\ [][C5_FallenStays]_vars

\* C5 witness: a leaf that was updated at chlorophyll 0 without falling has
\* fallen in a later update
C5_Witness ==
    /\ last.op = "Leaf.update"
    /\ last.hasFallen
    /\ last.before = 0
    /\ last.after < 0

\* C6 (as claimed): chlorophyll never exceeds 1 and no update increases it
C6_ChlorophyllDecays ==
    /\ \A k \in DOMAIN leaves : leaves[k].clorophyll <= ONE
    /\ \A k \in DOMAIN fallenLeaves : fallenLeaves[k].clorophyll <= ONE
    /\ last.op = "Leaf.update" => last.after <= last.before

\* C7 (state): a live flower has not fallen, has potential <= 2, is fruit
\* exactly when makeFruit has been called on it (once), and is fruit once
\* its potential has exceeded 1; a fallen flower has fallen once, with
\* potential > 2 and one fruiting; Flower.update makes the fruit exactly
\* when the flower is not fruit yet and the potential exceeds 1, keeps
\* isFruit, and returns true exactly when the potential exceeds 2
C7_FlowerSets ==
    /\ \A k \in DOMAIN flowers :
          /\ flowers[k].falls = 0
          /\ flowers[k].potential <= 2 * ONE
          /\ flowers[k].fruitings = (IF flowers[k].isFruit THEN 1 ELSE 0)
          /\ flowers[k].potential > ONE => flowers[k].isFruit
    /\ \A k \in DOMAIN fallenFlowers :
          /\ fallenFlowers[k].falls = 1
          /\ fallenFlowers[k].potential > 2 * ONE
          /\ fallenFlowers[k].fruitings = 1
          /\ \A j \in DOMAIN flowers : flowers[j].flowerId # fallenFlowers[k].flowerId
    /\ last.op = "Flower.update" =>
          /\ last.after.fruitings = last.before.fruitings + 1
                <=> ~last.before.isFruit /\ last.after.potential > ONE
          /\ last.after.fruitings \in {last.before.fruitings, last.before.fruitings + 1}
          /\ last.before.isFruit => last.after.isFruit
          /\ last.hasFallen <=> last.after.potential > 2 * ONE
          /\ last.before.falls = 0

\* C7 (step): isFruit never reverts, and a fallen flower stays in the fallen
\* set as it is
C7_FruitStays ==
    /\ \A k \in DOMAIN flowers : flowers[k].isFruit =>
          \A j \in DOMAIN flowers' :
              flowers'[j].flowerId = flowers[k].flowerId => flowers'[j].isFruit
    /\ \A k \in DOMAIN fallenFlowers :
          /\ k \in DOMAIN fallenFlowers'
          /\ fallenFlowers'[k] = fallenFlowers[k]
          /\ \A j \in DOMAIN flowers' : flowers'[j].flowerId # fallenFlowers[k].flowerId

\* C7: a flower becomes fruit exactly once, in the first update that leaves
\* its potential above 1, falls exactly once, in the first update that
\* leaves its potential above 2, and isFruit never reverts
C7_FruitOnceFallOnce == [](C7_FlowerSets) /\ [][C7_FruitStays]_vars

\* C7 witness: a fruit is updated again and its potential is still above 1
\* and not above 2: it stays fruit, no second fruiting is emitted, it stays
C7_Witness ==
    /\ last.op = "Flower.update"
    /\ last.before.isFruit
    /\ last.before.potential > ONE
    /\ last.after.potential > ONE
    /\ ~last.hasFallen
    /\ last.after.fruitings = 1

\* every id given to a part: stems, leaves, flower meshes and fruit meshes
PartIds ==
    [k \in DOMAIN stems |-> stems[k].id]
    \o [k \in DOMAIN leaves |-> leaves[k].id]
    \o [k \in DOMAIN fallenLeaves |-> fallenLeaves[k].id]
    \o [k \in DOMAIN flowers |-> flowers[k].flowerId]
    \o [k \in DOMAIN flowers |-> flowers[k].fruitId]
    \o [k \in DOMAIN fallenFlowers |-> fallenFlowers[k].flowerId]
    \o [k \in DOMAIN fallenFlowers |-> fallenFlowers[k].fruitId]

\* C9: the ids of the parts are pairwise distinct, they are exactly the ids
\* 1 .. idGen - 1 handed out so far, and the bones were queued in strictly
\* increasing order of id
C9_IdsUnique ==
    LET ids == PartIds
    IN  /\ \A i, j \in DOMAIN ids : i # j => ids[i] # ids[j]
        /\ Range(ids) = 1 .. idGen - 1
        /\ \A k \in DOMAIN editBonesQ : editBonesQ[k][1] = k - 1

\* C9 witness: stems, leaves and flowers have been created interleaved: a
\* stem was created after a flower, a flower after a leaf
C9_Witness ==
    /\ \E f \in Range(flowers) \cup Range(fallenFlowers) :
          /\ \E k \in DOMAIN stems : stems[k].id > f.fruitId
          /\ \E l \in Range(leaves) \cup Range(fallenLeaves) : l.id < f.flowerId

\* the total length of the stems grown from buds (all but the root)
GrownLength == SeqSum([k \in 1 .. Len(stems) - 1 |-> stems[k + 1].length])

\* C10 (as claimed): for a deterministic always-shooting species, after N
\* steps there are N + 1 stems and N + 1 live buds
C10_StemPerStep ==
    cfg \in DetSpecies /\ pc = "for" =>
        Len(stems) = steps + 1 /\ Len(buds) = steps + 1

\* C10 (amended): ... provided the stems grown so far are together shorter
\* than the apical dominance, so that every axillary bud has stayed inhibited
C10_StemPerStepDominated ==
    cfg \in DetSpecies /\ pc = "for" /\ GrownLength < cfg.startBudT.dominance =>
        Len(stems) = steps + 1 /\ Len(buds) = steps + 1

\* C10 witness: three steps of such a species with stems of non-zero length
C10_Witness ==
    /\ cfg \in DetSpecies
    /\ pc = "for"
    /\ steps = 3
    /\ GrownLength > 0
    /\ GrownLength < cfg.startBudT.dominance
    /\ Len(stems) = 4
    /\ Len(buds) = 4

\* C8: evaluate returns the mean yearCurve(year) * (dayCurve(endDay) -
\* dayCurve(startDay)) when endDay >= startDay, with dayCurve(365) added to
\* the difference when endDay < startDay, and the stddev of the signal
C8_EvaluateMean ==
    call.fn = "evaluate" /\ call.done =>
        LET dayStart == fcurve_evaluate(call.self.fcurveDay, call.startDay)
            dayEnd == fcurve_evaluate(call.self.fcurveDay, call.endDay)
            yearEnd == fcurve_evaluate(call.self.fcurveDay, YEAR_DAYS)
            yearValue == fcurve_evaluate(call.self.fcurveYear, call.year)
        IN  /\ call.endDay >= call.startDay =>
                  call.result.mean = yearValue * (dayEnd - dayStart)
            /\ call.endDay < call.startDay =>
                  call.result.mean = yearValue * ((dayEnd - dayStart) + yearEnd)
            /\ call.result.error = call.self.stddev

\* C8 witness: a call over the year boundary whose boundary term matters
C8_Witness ==
    /\ call.fn = "evaluate"
    /\ call.done
    /\ call.endDay < call.startDay
    /\ fcurve_evaluate(call.self.fcurveDay, YEAR_DAYS) # 0
    /\ call.result.mean # 0
    /\ call.result.mean =
          fcurve_evaluate(call.self.fcurveYear, call.year)
            * (fcurve_evaluate(call.self.fcurveDay, call.endDay)
                 - fcurve_evaluate(call.self.fcurveDay, call.startDay)
                 + fcurve_evaluate(call.self.fcurveDay, YEAR_DAYS))

\* C11 (as claimed): in a grow call with flowerGrowth 0 no bud update creates
\* a Flower, whatever flowerPotential the bud has and whatever the draw of
\* the gate is
C11_NoFlowerAtZero ==
    pc = "buds" /\ loop.flowerGrowth = 0 /\ last.op = "Bud.update"
        => last.grown # "flower"

\* C13 (as claimed): no stem has a negative length
C13_LengthNeverNegative ==
    \A k \in DOMAIN stems : stems[k].length >= 0

\* the bud-type indexes the templates of a species refer to: its start
\* template and the apical and axillary templates of its rules
ReferencedIndexes(sp) ==
    {sp.startBudT.index}
    \cup UNION {{rule.apiBudT.index} \cup {rule.axilTs[k].index : k \in DOMAIN rule.axilTs} :
                  rule \in UNION {Range(sp.budCollection[t].shootRules) :
                                     t \in DOMAIN sp.budCollection}}

\* C14 (as claimed): with a template that refers to a bud type the collection
\* does not hold, no growth step is run and no KeyError is raised in a step
C14_RejectedAtConstruction ==
    ~(ReferencedIndexes(cfg) \subseteq DOMAIN cfg.budCollection)
        => steps = 0 /\ pc # "KeyError"

\* C12 (state): during the bud pass no bud is twice in the snapshot, the bud
\* updated last is the element of the snapshot just passed, and the buds
\* created in the pass wait in addedBuds: they are neither in the snapshot
\* nor in the live list and have not been updated
C12_PassState ==
    pc = "buds" =>
        /\ \A i, j \in DOMAIN loop.snap : i # j => loop.snap[i] # loop.snap[j]
        /\ last.op = "Bud.update" => loop.i > 1 /\ last.bud = loop.snap[loop.i - 1]
        /\ \A k \in DOMAIN loop.addedBuds :
              LET a == loop.addedBuds[k]
              IN  /\ a \notin Range(loop.snap)
                  /\ a \notin Range(buds)
                  /\ budObjs[a].age = 0
                  /\ budObjs[a].shootPotential = 0
                  /\ budObjs[a].flowerPotential = 0

\* C12 (step): the snapshot of a step is the whole live list, with the buds
\* merged at the end of the step before; a turn of the pass updates the next
\* bud of the snapshot and changes no other bud; the pass ends after the
\* last bud of the snapshot, and only then are the new buds appended
C12_PassStep ==
    /\ pc = "for" /\ pc' = "buds" => loop'.snap = buds
    /\ pc = "buds" /\ pc' = "buds" =>
          /\ loop'.i = loop.i + 1
          /\ loop'.snap = loop.snap
          /\ \A b \in DOMAIN budObjs : b # loop.snap[loop.i] => budObjs'[b] = budObjs[b]
    /\ pc = "buds" /\ pc' = "stems" =>
          /\ loop.i = Len(loop.snap) + 1
          /\ buds' = buds \o loop.addedBuds

\* C12: every bud live at the start of the pass is updated exactly once, and
\* a bud created in step k is merged after the pass and first updated in
\* step k + 1
C12_SnapshotPass == [](C12_PassState) /\ [][C12_PassStep]_vars

\* C12 witness: an axillary bud created in the step before receives its
\* first update while a bud created in this pass waits in addedBuds
C12_Witness ==
    /\ pc = "buds"
    /\ last.op = "Bud.update"
    /\ last.apicalBud # None
    /\ last.age = 0
    /\ last.spBefore = 0
    /\ last.fpBefore = 0
    /\ loop.addedBuds # <<>>
    /\ steps >= 2

\* C15 (as claimed): the commands of a step are flushed at the end of that
\* step: between two steps every command queued so far has been applied to
\* the rig
C15_FlushedEachStep ==
    pc = "for" /\ steps > 0 =>
        rig.bones = editBonesQ /\ rig.keyframes = keyframesQ

\* C15 (amended): no command is applied to the rig while grow computes, nor
\* between steps or calls of grow; Tree.complete applies all the commands of
\* the run, every bone and every keyframe in the order it was queued, which
\* for the bones is the increasing order of part id
C15_FlushedOnComplete ==
    /\ pc # "complete" => rig = EmptyRig
    /\ pc = "complete" =>
          /\ rig.bones = editBonesQ
          /\ rig.keyframes = keyframesQ
          /\ \A k \in DOMAIN rig.bones : rig.bones[k][1] = k - 1

\* C15 witness: complete after two steps in which stems and leaves were
\* created and a leaf fell: their bones and keyframes are on the rig
C15_Witness ==
    /\ pc = "complete"
    /\ steps >= 2
    /\ Len(rig.bones) > 3
    /\ Len(rig.keyframes) > Len(rig.bones)
    /\ \E k \in DOMAIN rig.keyframes : rig.keyframes[k][2] = "location"

\* C16: a grow(time) call returns after exactly ceil(time / TIME_INTERVAL)
\* steps, none when time <= 0 (n is the least number of steps with
\* n * TIME_INTERVAL >= time); every step has advanced the frame
\* year * 365 + day by TIME_INTERVAL, also over the end of a year and from
\* one call to the next, so the frame is 1 + TIME_INTERVAL * steps
C16_StepsPerCall ==
    /\ last.op = "growReturn" =>
          /\ last.n >= 0
          /\ last.n * TIME_INTERVAL >= last.time
          /\ last.n > 0 => (last.n - 1) * TIME_INTERVAL < last.time
    /\ pc # "evaluate" => year * YEAR_DAYS + day = 1 + TIME_INTERVAL * steps
    /\ last.op = "growStep" =>
          /\ loop.endFrame = loop.startFrame + TIME_INTERVAL
          /\ loop.endFrame = year * YEAR_DAYS + day
          /\ loop.n >= 1
          /\ loop.n + loop.iters = RangeLen(loop.time) + 1
    /\ pc \notin {"idle", "for", "complete", "evaluate"} => loop.iters >= 1

\* C16 witness: a call grow(21) made in the second year, after earlier
\* calls, returns after two steps
C16_Witness ==
    /\ last.op = "growReturn"
    /\ last.time = 21
    /\ last.n = 2
    /\ year = 1
    /\ steps > 18

\* C17: an update whose accumulated shootPotential exceeds 1 on a bud that is
\* not inhibited returns the shoot rule, also when flowerPotential > 1 and
\* age > 0 hold as well; the flower rule is returned only when the shoot
\* rule is not
C17_ShootBeforeFlower ==
    last.op = "Bud.update" =>
        LET sp == last.spBefore + last.shootSignal
        IN  /\ sp > ONE /\ ~last.isInhibited => last.rule = "ShootGrowthRule"
            /\ last.rule = "FlowerGrowthRule" => ~(sp > ONE /\ ~last.isInhibited)
            /\ last.rule = "ShootGrowthRule" => last.grown = "stem"

\* C17 witness: both thresholds are met in the same update, and a stem grows
C17_Witness ==
    /\ last.op = "Bud.update"
    /\ last.spBefore + last.shootSignal > ONE
    /\ last.fpBefore + last.flowerSignal > ONE
    /\ last.age > 0
    /\ ~last.isInhibited
    /\ last.rule = "ShootGrowthRule"
    /\ last.grown = "stem"

\* C18: an update whose accumulated shootPotential exceeds 1 on an inhibited
\* bud returns no rule and leaves shootPotential 1 below the accumulated
\* value; an update whose accumulated shootPotential does not exceed 1
\* leaves the accumulated value
C18_InhibitedSpends ==
    last.op = "Bud.update" =>
        LET sp == last.spBefore + last.shootSignal
        IN  /\ sp > ONE /\ last.isInhibited =>
                  last.rule = "None" /\ last.spAfter = sp - ONE
            /\ sp <= ONE => last.spAfter = sp

\* C18 witness: an inhibited axillary bud spends an attempt
C18_Witness ==
    /\ last.op = "Bud.update"
    /\ last.isInhibited
    /\ last.spBefore + last.shootSignal > ONE
    /\ last.rule = "None"
    /\ last.spAfter = last.spBefore + last.shootSignal - ONE
    /\ budObjs[last.bud].shootPotential = last.spAfter

\* C19 (state): a new bud (the start bud before any step, a bud waiting in
\* addedBuds) has age 0, shootPotential 0 and flowerPotential 0, and an
\* axillary bud has a bud of the pass as its apical bud, on the stem that
\* bud grew; a bud that has grown a stem has been renewed in place: age one
\* more, flowerPotential 0, shootPotential one below the value the update
\* left, the same apical bud, still in the live list
C19_RenewState ==
    /\ steps = 0 =>
          /\ budObjs[1].age = 0
          /\ budObjs[1].shootPotential = 0
          /\ budObjs[1].flowerPotential = 0
    /\ \A k \in DOMAIN loop.addedBuds :
          LET a == budObjs[loop.addedBuds[k]]
          IN  /\ a.age = 0 /\ a.shootPotential = 0 /\ a.flowerPotential = 0
              /\ a.apicalBud \in Range(loop.snap)
              /\ a.apicalBud \in Range(buds)
              /\ budObjs[a.apicalBud].stem = a.stem
              /\ budObjs[a.apicalBud].age > 0
    /\ pc = "buds" /\ last.op = "Bud.update" /\ last.grown = "stem" =>
          /\ budObjs[last.bud].age = last.age + 1
          /\ budObjs[last.bud].flowerPotential = 0
          /\ budObjs[last.bud].shootPotential = last.spAfter - ONE
          /\ budObjs[last.bud].apicalBud = last.apicalBud
          /\ last.bud \in Range(buds)

\* C19 (step): growing a stem leaves the live list as it is, and no bud ever
\* changes its apical bud or gets younger
C19_RenewStep ==
    /\ Len(stems') > Len(stems) => buds' = buds
    /\ \A b \in DOMAIN budObjs :
          /\ b \in DOMAIN budObjs'
          /\ budObjs'[b].apicalBud = budObjs[b].apicalBud
          /\ budObjs'[b].age \in {budObjs[b].age, budObjs[b].age + 1}
          /\ budObjs'[b].age = budObjs[b].age + 1 => Len(stems') = Len(stems) + 1

\* C19: a new bud has age 0 and potentials 0; every renew increments age by
\* 1, sets flowerPotential to 0, decrements shootPotential by 1 and keeps
\* the bud's identity
C19_RenewInPlace == [](C19_RenewState) /\ [][C19_RenewStep]_vars

\* C19 witness: a bud that had sprouted before and had gathered
\* flowerPotential since sprouts again, with a new axillary bud
C19_Witness ==
    /\ pc = "buds"
    /\ last.op = "Bud.update"
    /\ last.grown = "stem"
    /\ last.age >= 1
    /\ last.fpAfter > 0
    /\ budObjs[last.bud].flowerPotential = 0
    /\ \E k \in DOMAIN loop.addedBuds : budObjs[loop.addedBuds[k]].apicalBud = last.bud

\* C20 (step): a bud update that returns the flower rule either passes the
\* gate: one Flower is appended to the live flowers (two ids, for the flower
\* and the fruit mesh), the bud leaves the live list in that turn and its
\* dominance is the floor; or misses it: no Flower, no id, no command, the
\* live list and the bud's dominance as they were, flowerPotential one below
\* the accumulated value.  No stem or leaf is created either way.
C20_FlowerStep ==
    /\ pc = "buds"
    /\ loop'.i = loop.i + 1
    /\ last'.op = "Bud.update"
    /\ last'.rule = "FlowerGrowthRule"
    => LET b == last'.bud
       IN  /\ b = loop.snap[loop.i]
           /\ b \in Range(buds)
           /\ stems' = stems
           /\ leaves' = leaves
           /\ last'.grown \in {"flower", "missed"}
           /\ last'.grown = "flower" =>
                 /\ Len(flowers') = Len(flowers) + 1
                 /\ SubSeq(flowers', 1, Len(flowers)) = flowers
                 /\ flowers'[Len(flowers')].parentId = stems[budObjs[b].stem].id
                 /\ idGen' = idGen + 2
                 /\ budObjs'[b].dominance = DONE_DOMINANCE
                 /\ Len(buds') = Len(buds) - 1
                 /\ Range(buds') = Range(buds) \ {b}
           /\ last'.grown = "missed" =>
                 /\ flowers' = flowers
                 /\ idGen' = idGen
                 /\ editBonesQ' = editBonesQ
                 /\ keyframesQ' = keyframesQ
                 /\ buds' = buds
                 /\ budObjs'[b].dominance = budObjs[b].dominance
                 /\ budObjs'[b].flowerPotential =
                       budObjs[b].flowerPotential + last'.flowerSignal - ONE

\* C20: what a flower outcome does when the gate passes and when it fails
C20_FlowerOrMiss == [][C20_FlowerStep]_vars

\* C20 witness: a bud has missed the gate: it is still live with its
\* template's dominance and one attempt less, and no flower exists
C20_Witness ==
    /\ last.op = "Bud.update"
    /\ last.rule = "FlowerGrowthRule"
    /\ last.grown = "missed"
    /\ last.bud \in Range(buds)
    /\ budObjs[last.bud].dominance = LONE
    /\ budObjs[last.bud].flowerPotential = last.fpAfter - ONE
    /\ flowers = <<>>

\* the bud b has been through Bud.done: only done sets the floor dominance,
\* every template has a larger one
HasFlowered(b) == budObjs[b].dominance = DONE_DOMINANCE

\* C21 (state): a bud that has flowered is not in the live list, not in the
\* part of the snapshot still to be updated and not among the new buds, and
\* it has sprouted before; the bud an update was made on was live
C21_RetiredState ==
    /\ \A b \in DOMAIN budObjs : HasFlowered(b) =>
          /\ b \notin Range(buds)
          /\ b \notin Range(loop.addedBuds)
          /\ pc = "buds" => \A i \in DOMAIN loop.snap : i >= loop.i => loop.snap[i] # b
          /\ budObjs[b].age > 0
    /\ pc = "buds" /\ last.op = "Bud.update" /\ last.grown # "flower"
          => last.bud \in Range(buds)

\* C21 (step): a bud that has flowered is never changed again (no update, no
\* renew, its dominance stays the floor) and never returns to the live list
C21_RetiredStep ==
    \A b \in DOMAIN budObjs : HasFlowered(b) =>
        /\ b \in DOMAIN budObjs'
        /\ budObjs'[b] = budObjs[b]
        /\ b \notin Range(buds')
        /\ (last'.op = "Bud.update" /\ last' # last) => last'.bud # b

\* C21: retirement is permanent
C21_RetiredForGood == [](C21_RetiredState) /\ [][C21_RetiredStep]_vars

\* C21 witness: a step after the one in which a bud flowered has passed its
\* bud phase with another bud updated, and the retired bud is as it was
C21_Witness ==
    /\ \E b \in DOMAIN budObjs : HasFlowered(b) /\ b \notin Range(buds)
    /\ steps = 3
    /\ pc = "stems"
    /\ flowers # <<>>
    /\ \A k \in DOMAIN flowers : flowers[k].potential > 0

\* the accumulator g of a stem of thickness 0.9^thickPow exceeds 0.2:
\* (g / 4) * 0.05 * 0.9^thickPow > 0.2
ExceedsThreshold(g, thickPow) == g * 9 ^ thickPow > 16 * 10 ^ thickPow

\* C22: after every Stem.update the accumulator of every stem is in
\* [0, 0.2]; the update of a stem emits a thickening exactly when the
\* accumulator with the new contribution exceeds 0.2, the gain emitted is
\* that value and the accumulator is then 0; otherwise nothing is emitted
\* and the accumulator keeps the value: gain emitted + accumulator after =
\* accumulator before + contribution
C22_Accumulator ==
    /\ \A k \in DOMAIN stems :
          /\ stems[k].secondaryGrowthGain >= 0
          /\ ~ExceedsThreshold(stems[k].secondaryGrowthGain, stems[k].thickPow)
    /\ last.op = "Stem.update" =>
          /\ Len(stems) = Len(last.before)
          /\ \A k \in DOMAIN stems :
                LET before == last.before[k]
                    sum == before.secondaryGrowthGain + last.secondaryGrowth
                    over == ExceedsThreshold(sum, before.thickPow)
                IN  /\ stems[k].thickenings = before.thickenings + (IF over THEN 1 ELSE 0)
                    /\ last.gains[k] = (IF over THEN sum ELSE 0)
                    /\ stems[k].secondaryGrowthGain = (IF over THEN 0 ELSE sum)
                    /\ last.gains[k] + stems[k].secondaryGrowthGain = sum

\* C22 witness: in one pass over the stems a stem that had accumulated
\* before thickens and a thinner stem only accumulates
C22_Witness ==
    /\ last.op = "Stem.update"
    /\ \E k \in DOMAIN stems :
          /\ last.before[k].secondaryGrowthGain > 0
          /\ last.gains[k] > 0
          /\ stems[k].secondaryGrowthGain = 0
    /\ \E k \in DOMAIN stems :
          /\ last.gains[k] = 0
          /\ stems[k].secondaryGrowthGain > last.before[k].secondaryGrowthGain

\* C23 (state): the day is in 1 .. 365; in a step, from its start to its
\* end, the day the signals end at is the tree's day, the step began in the
\* tree's year or the year before, it began the year before exactly when
\* endDay < startDay, and the signals of the bud pass are evaluated with the
\* year the step began in
C23_DayYearState ==
    /\ pc # "evaluate" => day \in 1 .. YEAR_DAYS
    /\ year >= 0
    /\ pc \in {"buds", "stems", "leaves", "flowers"} =>
          /\ loop.endDay = day
          /\ loop.startDay \in 1 .. YEAR_DAYS
          /\ loop.yr \in {year, year - 1}
          /\ loop.yr = year - 1 <=> loop.endDay < loop.startDay
          /\ loop.yr = year - 1 <=> loop.startDay + TIME_INTERVAL > YEAR_DAYS
    /\ pc = "buds" =>
          LET dayCurve(f, d) == fcurve_evaluate(f.fcurveDay, d)
              rise(f) == IF loop.endDay < loop.startDay
                         THEN dayCurve(f, loop.endDay) - dayCurve(f, loop.startDay)
                                 + dayCurve(f, YEAR_DAYS)
                         ELSE dayCurve(f, loop.endDay) - dayCurve(f, loop.startDay)
              startYear == IF loop.endDay < loop.startDay THEN year - 1 ELSE year
              mean(f) == fcurve_evaluate(f.fcurveYear, startYear) * rise(f)
          IN  /\ loop.primaryGrowthR.mean = mean(cfg.primaryGrowthF)
              /\ loop.bloomingR.mean = mean(cfg.bloomingF)

\* C23 (step): a step adds TIME_INTERVAL to the day and leaves the year, or,
\* exactly when that exceeds 365, takes 365 off and adds 1 to the year; no
\* other action changes the day or the year
C23_DayYearStep ==
    IF pc = "for" /\ pc' = "buds"
    THEN IF day + TIME_INTERVAL > YEAR_DAYS
         THEN day' = day + TIME_INTERVAL - YEAR_DAYS /\ year' = year + 1
         ELSE day' = day + TIME_INTERVAL /\ year' = year
    ELSE day' = day /\ year' = year

\* C23: the day and year of the steps and the year index of the signals
C23_DayYear == [](C23_DayYearState) /\ [][C23_DayYearStep]_vars

\* C23 witness: the step from day 361 of year 0 to day 16 of year 1, whose
\* blooming signal is the one of year 0
C23_Witness ==
    /\ pc = "buds"
    /\ year = 1
    /\ day = 16
    /\ loop.startDay = 361
    /\ loop.yr = 0
    /\ loop.bloomingR.mean # 0
    /\ loop.bloomingR.mean # evaluate(cfg.bloomingF, 1, 361, 16).mean

\* C24 (step): the phases of a step follow one another in the order buds,
\* merge, stems, leaves, flowers; buds, stems and ids are made in the bud
\* phase alone, which updates no stem, leaf or flower; the stem phase updates
\* every stem there is, the stems of this step included; the leaf and the
\* flower phase walk all the leaves and all the flowers there are when they
\* begin, and end after the last of them
C24_PhaseStep ==
    /\ pc = "for" => pc' \in {"for", "buds", "idle"}
    /\ pc = "buds" => pc' \in {"buds", "stems", "KeyError", "ZeroDivisionError"}
    /\ pc = "stems" => pc' \in {"stems", "leaves"}
    /\ pc = "leaves" => pc' \in {"leaves", "flowers"}
    /\ pc = "flowers" => pc' \in {"flowers", "for"}
    /\ pc # "buds" =>
          /\ budObjs' = budObjs
          /\ buds' = buds
          /\ Len(stems') = Len(stems)
          /\ idGen' = idGen
    /\ pc = "buds" /\ pc' = "buds" =>
          /\ SubSeq(stems', 1, Len(stems)) = stems
          /\ SubSeq(leaves', 1, Len(leaves)) = leaves
          /\ SubSeq(flowers', 1, Len(flowers)) = flowers
          /\ fallenLeaves' = fallenLeaves
          /\ fallenFlowers' = fallenFlowers
    /\ pc = "buds" /\ pc' = "stems" =>
          /\ buds' = buds \o loop.addedBuds
          /\ <<stems', leaves', flowers'>> = <<stems, leaves, flowers>>
    /\ pc = "stems" /\ pc' = "leaves" =>
          /\ last'.op = "Stem.update"
          /\ last'.before = stems
          /\ DOMAIN last'.gains = DOMAIN stems
          /\ loop'.snap = [k \in DOMAIN leaves |-> leaves[k].id]
          /\ loop'.i = 1
          /\ <<leaves', flowers'>> = <<leaves, flowers>>
    /\ pc = "leaves" /\ pc' = "leaves" =>
          /\ loop'.i = loop.i + 1
          /\ <<stems', flowers'>> = <<stems, flowers>>
    /\ pc = "leaves" /\ pc' = "flowers" =>
          /\ loop.i = Len(loop.snap) + 1
          /\ loop'.snap = [k \in DOMAIN flowers |-> flowers[k].flowerId]
          /\ loop'.i = 1
          /\ <<stems', leaves', flowers'>> = <<stems, leaves, flowers>>
    /\ pc = "flowers" /\ pc' = "flowers" =>
          /\ loop'.i = loop.i + 1
          /\ <<stems', leaves'>> = <<stems, leaves>>
    /\ pc = "flowers" /\ pc' = "for" =>
          /\ loop.i = Len(loop.snap) + 1
          /\ <<stems', leaves', flowers'>> = <<stems, leaves, flowers>>

\* C24: the order of the phases, and with it the first update of a stem,
\* leaf or flower in the step that creates it
C24_PhaseOrder == [][C24_PhaseStep]_vars

\* C24 witness: in the second step, the first in which a bud can flower, the
\* flower made in the bud phase receives its first update in the flower
\* phase, after the stems and a leaf were updated
C24_Witness ==
    /\ pc = "flowers"
    /\ steps = 2
    /\ last.op = "Flower.update"
    /\ last.before.potential = 0
    /\ last.after.potential # 0
    /\ Len(stems) >= 2
    /\ \E l \in Range(leaves) \cup Range(fallenLeaves) : l.clorophyll < ONE

\* C25: a new axillary bud is at the position of its apical bud; an update of
\* an axillary bud of age 0 at distance 0 finds it inhibited; when such a bud
\* grows a shoot, its distance to the apical bud is positive and at least
\* the apical bud's dominance, and the apical bud has sprouted again since
\* (it has sprouted at least twice: once to create the axillary bud, once to
\* move away)
C25_AxillaryHeldBack ==
    /\ \A k \in DOMAIN loop.addedBuds :
          LET a == budObjs[loop.addedBuds[k]]
          IN  /\ a.apicalBud # None
              /\ a.pos = budObjs[a.apicalBud].pos
              /\ budObjs[a.apicalBud].dominance > 0
    /\ last.op = "Bud.update" /\ last.age = 0 /\ last.apicalBud # None =>
          /\ last.dominance > 0
          /\ last.dist = 0 => last.isInhibited /\ last.rule = "None"
          /\ last.rule = "ShootGrowthRule" =>
                /\ last.dist > 0
                /\ last.dist >= last.dominance
                /\ budObjs[last.apicalBud].age >= 2

\* C25 witness: an axillary bud that was held back in an earlier step grows
\* a shoot once its apical bud has moved further away than its dominance
C25_Witness ==
    /\ last.op = "Bud.update"
    /\ last.age = 0
    /\ last.apicalBud # None
    /\ last.grown = "stem"
    /\ last.dist > last.dominance
    /\ last.spBefore > 0
    /\ budObjs[last.apicalBud].age >= 2

\* the primary-growth and blooming signals of a species cannot be sampled
\* below 0 in the steps followed (step k starts at frame 1 + 20 * k): the
\* mean of every step is at least the spread
NonNegativeSignals(sp) ==
    \A f \in {sp.primaryGrowthF, sp.bloomingF} :
        \A k \in 0 .. sp.maxSteps - 1 :
            LET frame == 1 + TIME_INTERVAL * k
                yr == (frame - 1) \div YEAR_DAYS
                d == frame - YEAR_DAYS * yr
                e == IF d + TIME_INTERVAL > YEAR_DAYS
                     THEN d + TIME_INTERVAL - YEAR_DAYS ELSE d + TIME_INTERVAL
            IN  \A x \in RandomValue_get(evaluate(f, yr, d, e)) : x >= 0

\* C26: with primary-growth and blooming amounts that are never negative,
\* every bud, live, new or retired, has shootPotential >= 0 and
\* flowerPotential >= 0, and an update lowers a potential below its
\* accumulated value only from a value above 1
C26_PotentialsNonNegative ==
    NonNegativeSignals(cfg) =>
        /\ \A b \in DOMAIN budObjs :
              budObjs[b].shootPotential >= 0 /\ budObjs[b].flowerPotential >= 0
        /\ last.op = "Bud.update" =>
              /\ last.shootSignal >= 0
              /\ last.flowerSignal >= 0
              /\ last.spAfter < last.spBefore + last.shootSignal
                    => last.spBefore + last.shootSignal > ONE
              /\ pc = "buds" /\ budObjs[last.bud].shootPotential < last.spAfter
                    => last.spAfter > ONE /\ last.grown = "stem"
              /\ pc = "buds" /\ budObjs[last.bud].flowerPotential < last.fpAfter
                    => last.fpAfter > ONE \/ last.grown = "stem"

\* C26 witness: a bud whose update drew less than 1 while it was inhibited
\* keeps what it drew, and a bud that missed the flower gate keeps a
\* positive rest
C26_Witness ==
    /\ NonNegativeSignals(cfg)
    /\ last.op = "Bud.update"
    /\ last.isInhibited
    /\ last.spBefore + last.shootSignal <= ONE
    /\ last.spAfter = last.spBefore + last.shootSignal
    /\ last.spAfter > 0
    /\ \E b \in DOMAIN budObjs :
          budObjs[b].flowerPotential > 0 /\ budObjs[b].flowerPotential < ONE

\* C27: every fallen flower is a fruit, and an update that makes a flower
\* fall leaves it a fruit: if it was still a flower, the same update has
\* made the fruit first
C27_FallenAreFruit ==
    /\ \A k \in DOMAIN fallenFlowers : fallenFlowers[k].isFruit
    /\ last.op = "Flower.update" /\ last.hasFallen =>
          /\ last.after.isFruit
          /\ ~last.before.isFruit => last.after.fruitings = last.before.fruitings + 1
          /\ \E k \in DOMAIN fallenFlowers :
                fallenFlowers[k].flowerId = last.id /\ fallenFlowers[k].isFruit

\* C27 witness: a flower that is not a fruit, with potential <= 1, draws
\* enough in one update to pass 2: it becomes a fruit and falls at once
C27_Witness ==
    /\ last.op = "Flower.update"
    /\ ~last.before.isFruit
    /\ last.before.potential <= ONE
    /\ last.after.potential > 2 * ONE
    /\ last.hasFallen
    /\ last.after.isFruit
    /\ \E k \in DOMAIN fallenFlowers : fallenFlowers[k].flowerId = last.id

\* C28: in the queue of bone creations the ids increase strictly; the first
\* command makes bone 0 without a parent, the second the root stem's bone
\* with parent 0; the parent of every later command is the id of a stem, it
\* is smaller than the command's own id and it is the id of a command
\* queued before; Tree.complete makes the bones in that order
C28_ParentsFirst ==
    LET q == editBonesQ
    IN  /\ Len(q) >= 2
        /\ q[1] = <<0, NoParent>>
        /\ q[2] = <<1, 0>>
        /\ \A k \in DOMAIN q : k > 1 =>
              /\ q[k - 1][1] < q[k][1]
              /\ q[k][2] < q[k][1]
              /\ \E j \in 1 .. k - 1 : q[j][1] = q[k][2]
        /\ \A k \in DOMAIN q : k > 2 =>
              \E s \in DOMAIN stems : stems[s].id = q[k][2]
        /\ pc = "complete" => rig.bones = q

\* C28 witness: the bones of a tree with a stem on a stem that is not the
\* root, a leaf and a flower on such stems, made on the rig
C28_Witness ==
    /\ pc = "complete"
    /\ \E k \in DOMAIN stems : stems[k].parentId > 1
    /\ \E l \in Range(leaves) \cup Range(fallenLeaves) : l.parentId > 1
    /\ \E f \in Range(flowers) \cup Range(fallenFlowers) : f.parentId > 1
    /\ Len(rig.bones) >= 7

============================================================================
